---- MODULE Spec2Model ----
(***************************************************************************)
(* Model of static/app.js: the DOMContentLoaded listener that wires the    *)
(* "btn-refresh" element, and the async click listener that POSTs to       *)
(* /api/refresh_sinais, inspects the JSON answer, alerts and reloads.      *)
(*                                                                         *)
(* One handler invocation is a small process with a program counter:       *)
(*   "idle"  - this click has not happened yet                             *)
(*   "fetch" - suspended at `await fetch(...)`            (line 11)        *)
(*   "json"  - suspended at `await resp.json()`           (line 12)        *)
(*   "done"  - the async function has settled                              *)
(* Everything between two awaits runs to completion (single JS thread),    *)
(* so each action is one synchronous run of the handler.                   *)
(***************************************************************************)
EXTENDS Integers, Sequences, FiniteSets, TLC

\* ------------------------------------------------------------------ bounds
MaxClicks == 2

Clicks == 1..MaxClicks

\* ------------------------------------------------------- inputs (environment)
\* Labels the element may carry in the served page.
InitialLabels == {"Atualizar sinais", "Refresh"}

\* HTTP statuses a resolved fetch() may carry; fetch() resolves for all of them.
Statuses == {200, 500}

Is2xx(s) == s >= 200 /\ s < 300

\* A JSON value, as far as line 13 can tell values apart.
\*   kind : the JSON type of the parsed body
\*   n    : the number itself, or the length of a string
\*   qtd  : what the property read `data.qtd` yields, [t |-> typeof-ish tag, n |-> value]
Undefined == [t |-> "undefined", n |-> 0]

JNull == [kind |-> "null", n |-> 0, qtd |-> Undefined]

JNum(k) == [kind |-> "number", n |-> k, qtd |-> Undefined]

JStr(len) == [kind |-> "string", n |-> len, qtd |-> Undefined]

JObj(q) == [kind |-> "object", n |-> 0, qtd |-> q]

NoData == [kind |-> "none", n |-> 0, qtd |-> Undefined]

ParsedValues ==
    { JNull, JNum(0), JStr(2),
      JObj(Undefined),
      JObj([t |-> "number", n |-> 0]),
      JObj([t |-> "number", n |-> 5]),
      JObj([t |-> "string", n |-> 0]),     \* {"qtd": "0"}
      JObj([t |-> "null", n |-> 0]) }      \* {"qtd": null}

\* ------------------------------------------------------- observable effects
FetchEv == "POST /api/refresh_sinais"

InfoEv == "alert: Nao foi possivel coletar novos sinais agora."

FailEv == "alert: Falha ao atualizar sinais."

ReloadEv == "window.location.reload"

LogEv == "console.error"

InProgressLabel == "Atualizando..."

VARIABLES
    page,         \* "loading" | "ready" | "unloaded"
    btnExists,    \* does document.getElementById("btn-refresh") find an element
    listeners,    \* number of click listeners registered on the element
    initError,    \* did the DOMContentLoaded callback throw
    disabled,     \* btn.disabled
    textContent,  \* btn.textContent
    label0,       \* the label the page was served with (never written)
    pc,           \* per click: position of its handler
    old,          \* per click: the local `old`
    clickLabel,   \* per click: label of the element when the click arrived
    resp,         \* per click: HTTP status of the resolved fetch, 0 if none
    result,       \* per click: "pending" | "fetchRejected" | "parseFailed" | "parsed"
    data,         \* per click: the parsed body
    log           \* per click: the effects its handler produced, in order

vars == <<page, btnExists, listeners, initError, disabled, textContent, label0,
          pc, old, clickLabel, resp, result, data, log>>

dom == <<disabled, textContent>>

\* --------------------------------------------------------------- helpers
Count(s, e) == Cardinality({k \in DOMAIN s : s[k] = e})

Precedes(s, a, b) == \A j, k \in DOMAIN s : (s[j] = a /\ s[k] = b) => j < k

Pending(i) == pc[i] \in {"fetch", "json"}

Quiescent == \A i \in Clicks : ~Pending(i)

\* ------------------------------------------------- page-ready callback (2-6)
GetElementById == IF btnExists THEN "btn" ELSE "null"

GuardReturnsNoGuard(btn) == FALSE

\* line 4: if (!btn) return;
GuardReturns(btn) == btn = "null"

DOMContentLoaded ==
    /\ page = "loading"
    /\ page' = "ready"
    /\ LET btn == GetElementById IN
         IF GuardReturns(btn)
         THEN /\ listeners' = listeners
              /\ initError' = FALSE
         ELSE IF btn = "null"
         THEN /\ listeners' = listeners       \* null.addEventListener throws
              /\ initError' = TRUE
         ELSE /\ listeners' = listeners + 1
              /\ initError' = FALSE
    /\ UNCHANGED <<btnExists, dom, label0, pc, old, clickLabel, resp, result, data, log>>

\* ------------------------------------------------------- click listener (6-24)
\* line 7: const old = btn.textContent;
CaptureOld(label) == label

DisabledOnClickNot == FALSE

\* line 8: btn.disabled = true;
DisabledOnClick == TRUE

FetchCallTwice == <<FetchEv, FetchEv>>

\* line 11: one fetch(...) with method POST
FetchCall == <<FetchEv>>

Truthy(v) ==
    CASE v.kind = "null"   -> FALSE
      [] v.kind = "number" -> v.n # 0
      [] v.kind = "string" -> v.n # 0
      [] OTHER             -> TRUE

\* typeof q
Typeof(q) == IF q.t = "null" THEN "object" ELSE q.t

\* q === 0: no coercion, so only the number 0
StrictEq0(q) == q.t = "number" /\ q.n = 0

\* q == 0: the string "0" (n is its numeric reading) coerces to 0, null does not
LooseEq0(q) == q.t \in {"number", "string"} /\ q.n = 0

QtdCheckLoose(v) ==
    /\ Truthy(v)
    /\ LooseEq0(v.qtd)

\* line 13: data && typeof data.qtd === "number" && data.qtd === 0
QtdCheck(v) ==
    /\ Truthy(v)
    /\ Typeof(v.qtd) = "number"
    /\ StrictEq0(v.qtd)

TryTailReloadFirst(v) ==
    IF QtdCheck(v) THEN <<ReloadEv, InfoEv>> ELSE <<ReloadEv>>

TryTailReturnAfterAlert(v) ==
    IF QtdCheck(v) THEN <<InfoEv>> ELSE <<ReloadEv>>

\* lines 13-16: the rest of the try block once the body has parsed
TryTail(v) ==
    IF QtdCheck(v) THEN <<InfoEv, ReloadEv>> ELSE <<ReloadEv>>

CatchBodyThenReload == <<LogEv, FailEv, ReloadEv>>

\* lines 17-19
CatchBody == <<LogEv, FailEv>>

FinallyLabelKeep(i) == textContent

\* lines 20-23
FinallyLabel(i) == old[i]

FinallyDisabled(i) == FALSE

Finally(i) ==
    /\ disabled' = FinallyDisabled(i)
    /\ textContent' = FinallyLabel(i)

\* The synchronous head of the handler, lines 7-11, up to the first await.
Start(i) ==
    /\ page = "ready"
    /\ listeners >= 1
    /\ pc[i] = "idle"
    /\ \A j \in Clicks : j < i => pc[j] # "idle"
    /\ clickLabel' = [clickLabel EXCEPT ![i] = textContent]
    /\ old' = [old EXCEPT ![i] = CaptureOld(textContent)]
    /\ disabled' = DisabledOnClick
    /\ textContent' = InProgressLabel
    /\ log' = [log EXCEPT ![i] = FetchCall]
    /\ pc' = [pc EXCEPT ![i] = "fetch"]
    /\ UNCHANGED <<page, btnExists, listeners, initError, label0, resp, result, data>>

\* A click delivered to the enabled element.
Click(i) ==
    /\ ~disabled
    /\ Start(i)

\* A click delivered although btn.disabled is set (dispatchEvent, or an element
\* that is not a form control): nothing in the listener rejects it.
ClickWhileDisabled(i) ==
    /\ disabled
    /\ Start(i)

\* fetch() rejects (transport error): catch, then finally.
FetchReject(i) ==
    /\ page = "ready"
    /\ pc[i] = "fetch"
    /\ result' = [result EXCEPT ![i] = "fetchRejected"]
    /\ log' = [log EXCEPT ![i] = @ \o CatchBody]
    /\ Finally(i)
    /\ pc' = [pc EXCEPT ![i] = "done"]
    /\ UNCHANGED <<page, btnExists, listeners, initError, label0, old, clickLabel, resp, data>>

\* fetch() resolves with a Response of any status; line 12 starts reading the body.
FetchResolve(i, s) ==
    /\ page = "ready"
    /\ pc[i] = "fetch"
    /\ resp' = [resp EXCEPT ![i] = s]
    /\ pc' = [pc EXCEPT ![i] = "json"]
    /\ UNCHANGED <<page, btnExists, listeners, initError, dom, label0, old, clickLabel,
                   result, data, log>>

\* resp.json() rejects (body is not JSON): catch, then finally.
JsonReject(i) ==
    /\ page = "ready"
    /\ pc[i] = "json"
    /\ result' = [result EXCEPT ![i] = "parseFailed"]
    /\ log' = [log EXCEPT ![i] = @ \o CatchBody]
    /\ Finally(i)
    /\ pc' = [pc EXCEPT ![i] = "done"]
    /\ UNCHANGED <<page, btnExists, listeners, initError, label0, old, clickLabel, resp, data>>

\* resp.json() resolves with v: lines 13-16, then finally.
JsonResolve(i, v) ==
    /\ page = "ready"
    /\ pc[i] = "json"
    /\ result' = [result EXCEPT ![i] = "parsed"]
    /\ data' = [data EXCEPT ![i] = v]
    /\ log' = [log EXCEPT ![i] = @ \o TryTail(v)]
    /\ Finally(i)
    /\ pc' = [pc EXCEPT ![i] = "done"]
    /\ UNCHANGED <<page, btnExists, listeners, initError, label0, old, clickLabel, resp>>

\* The navigation started by line 16 replaces the document: handlers still
\* suspended never resume.  The browser may do this at any later task boundary.
Unload ==
    /\ page = "ready"
    /\ \E i \in Clicks : Count(log[i], ReloadEv) > 0
    /\ page' = "unloaded"
    /\ UNCHANGED <<btnExists, listeners, initError, dom, label0, pc, old, clickLabel,
                   resp, result, data, log>>

\* ------------------------------------------------------------ specification
Init ==
    /\ page = "loading"
    /\ btnExists \in BOOLEAN
    /\ listeners = 0
    /\ initError = FALSE
    /\ disabled = FALSE
    /\ label0 \in (IF btnExists THEN InitialLabels ELSE {""})
    /\ textContent = label0
    /\ pc = [i \in Clicks |-> "idle"]
    /\ old = [i \in Clicks |-> ""]
    /\ clickLabel = [i \in Clicks |-> ""]
    /\ resp = [i \in Clicks |-> 0]
    /\ result = [i \in Clicks |-> "pending"]
    /\ data = [i \in Clicks |-> NoData]
    /\ log = [i \in Clicks |-> <<>>]

Settle ==
    \E i \in Clicks :
        \/ FetchReject(i)
        \/ \E s \in Statuses : FetchResolve(i, s)
        \/ JsonReject(i)
        \/ \E v \in ParsedValues : JsonResolve(i, v)

Next ==
    \/ DOMContentLoaded
    \/ \E i \in Clicks : Click(i)
    \/ \E i \in Clicks : ClickWhileDisabled(i)
    \/ Settle
    \/ Unload

Spec == Init /\ [][Next]_vars

\* Clicks reach the listener only while the element is enabled.
NextGuarded ==
    \/ DOMContentLoaded
    \/ \E i \in Clicks : Click(i)
    \/ Settle
    \/ Unload

SpecGuarded == Init /\ [][NextGuarded]_vars

TypeOK ==
    /\ page \in {"loading", "ready", "unloaded"}
    /\ btnExists \in BOOLEAN
    /\ listeners \in 0..1
    /\ disabled \in BOOLEAN
    /\ \A i \in Clicks : pc[i] \in {"idle", "fetch", "json", "done"}

\* ------------------------------------------------------------------ claims
Alerts(i) == Count(log[i], InfoEv) + Count(log[i], FailEv)

Failed(i) == pc[i] = "done" /\ result[i] \in {"fetchRejected", "parseFailed"}

Parsed(i) == pc[i] = "done" /\ result[i] = "parsed"

\* The parsed body is an object whose field qtd is the number 0.
IsQtdZero(v) == v.kind = "object" /\ v.qtd = [t |-> "number", n |-> 0]

\* C1: at the step in which a click's handler settles, on either path, the
\* element ends up enabled and carrying the label it had when that click arrived.
C1_RestoredOnSettle ==
    [][\A i \in Clicks :
          (Pending(i) /\ pc'[i] = "done")
              => (disabled' = FALSE /\ textContent' = clickLabel[i])]_vars

C1_Witness ==
    \E i, j \in Clicks :
        /\ Failed(i) /\ Parsed(j)
        /\ ~disabled /\ textContent = clickLabel[j] /\ clickLabel[j] = label0

\* C2: a click whose fetch was rejected or whose body did not parse shows the
\* failure alert exactly once, no informational alert, and never reloads.
C2_FailurePath ==
    \A i \in Clicks :
        Failed(i) => /\ Count(log[i], FailEv) = 1
                     /\ Count(log[i], InfoEv) = 0
                     /\ Count(log[i], ReloadEv) = 0

C2_Witness ==
    \E i, j \in Clicks :
        /\ pc[i] = "done" /\ result[i] = "fetchRejected"
        /\ pc[j] = "done" /\ result[j] = "parseFailed"

\* C3: a body that parses to an object with qtd = 0 shows the informational
\* alert exactly once, before the reload, and no failure alert.
C3_QtdZeroAlertsThenReloads ==
    \A i \in Clicks :
        (Parsed(i) /\ IsQtdZero(data[i]))
            => /\ Count(log[i], InfoEv) = 1
               /\ Count(log[i], ReloadEv) >= 1
               /\ Precedes(log[i], InfoEv, ReloadEv)
               /\ Count(log[i], FailEv) = 0

C3_Witness == \E i \in Clicks : Parsed(i) /\ IsQtdZero(data[i])

\* C4: a body that parses to anything else (qtd non-zero, absent, not a number,
\* or the value null or a non-object) shows no alert and still reloads.
C4_OtherBodiesReloadSilently ==
    \A i \in Clicks :
        (Parsed(i) /\ ~IsQtdZero(data[i]))
            => /\ Alerts(i) = 0
               /\ Count(log[i], ReloadEv) = 1

C4_Witness ==
    \E i, j \in Clicks :
        /\ Parsed(i) /\ data[i] = JObj([t |-> "string", n |-> 0])
        /\ Parsed(j) /\ data[j] = JNull

\* C5: a response with a non-2xx status ends in the failure branch, whatever
\* its body: the failure alert is shown and the page is not reloaded.
C5_Non2xxIsFailure ==
    \A i \in Clicks :
        (pc[i] = "done" /\ resp[i] # 0 /\ ~Is2xx(resp[i]))
            => /\ Count(log[i], FailEv) = 1
               /\ Count(log[i], ReloadEv) = 0

\* C6 (as stated): every settled click has reloaded the page exactly once.
C6_ReloadUnconditional ==
    \A i \in Clicks : pc[i] = "done" => Count(log[i], ReloadEv) = 1

\* C6 (amended): a settled click has reloaded exactly once if its fetch resolved
\* and its body parsed, whatever the qtd check said, and not at all otherwise.
C6_ReloadIffParsed ==
    \A i \in Clicks :
        pc[i] = "done"
            => Count(log[i], ReloadEv) = (IF result[i] = "parsed" THEN 1 ELSE 0)

C6_Witness ==
    \E i, j \in Clicks :
        /\ Failed(i)
        /\ Parsed(j) /\ IsQtdZero(data[j])

\* C7: without the element the page-ready callback throws nothing and registers
\* nothing, so no POST, alert, reload or DOM write ever happens; with the
\* element exactly one click listener is registered.
C7_AbsentElementInert ==
    page # "loading"
        => /\ ~initError
           /\ btnExists => listeners = 1
           /\ ~btnExists => /\ listeners = 0
                            /\ \A i \in Clicks : pc[i] = "idle" /\ log[i] = <<>>
                            /\ disabled = FALSE /\ textContent = label0

C7_Witness == page = "ready" /\ ~btnExists /\ listeners = 0

\* C8: each click issues exactly one POST and shows at most one alert.
C8_OnePostAtMostOneAlert ==
    \A i \in Clicks :
        pc[i] # "idle" => /\ Count(log[i], FetchEv) = 1
                          /\ Alerts(i) <= 1

C8_Witness ==
    \E i, j \in Clicks :
        /\ pc[i] = "done" /\ Count(log[i], InfoEv) = 1
        /\ pc[j] = "done" /\ Count(log[j], FailEv) = 1

\* C9: whenever no handler is pending the element is enabled and carries the
\* label it had before the first click, also when clicks overlap.
C9_QuiescentRestored ==
    (page = "ready" /\ btnExists /\ Quiescent)
        => (~disabled /\ textContent = label0)

\* C10: when clicks arrive only while the element is enabled, at most one
\* request is pending, the element is disabled and labelled in-progress for as
\* long as it is, and it is re-enabled only in the step that settles that
\* click, after its alert/reload decision.
C10_Inv ==
    /\ Cardinality({i \in Clicks : Pending(i)}) <= 1
    /\ (\E i \in Clicks : Pending(i)) => (disabled /\ textContent = InProgressLabel)

C10_Step ==
    (disabled /\ ~disabled')
        => \E i \in Clicks :
              /\ Pending(i) /\ pc'[i] = "done"
              /\ Count(log'[i], ReloadEv) + Count(log'[i], FailEv) >= 1
              /\ \A j \in Clicks : ~(pc'[j] \in {"fetch", "json"})

C10_SingleFlight == [](C10_Inv) /\ [][C10_Step]_vars

C10_Witness ==
    \E i, j \in Clicks :
        /\ pc[i] = "done" /\ pc[j] = "fetch"
        /\ disabled /\ textContent = InProgressLabel

====
